---------------------------- MODULE Spec2Model ----------------------------
(***************************************************************************)
(* atomic_metrics_core: the build-time generator of the MetricsRecorder.   *)
(*                                                                         *)
(* Text is a sequence of character codes (code points; the alphabet used   *)
(* here is ASCII, where code point order and the byte order of String      *)
(* coincide).  A name is the sequence of codes a capture group holds.      *)
(***************************************************************************)
EXTENDS Integers, Sequences, FiniteSets, TLC

(***************************************************************************)
(* Bounds of the model.                                                    *)
(***************************************************************************)
\* number of entries the glob yields, at most
NumFiles == 2
\* length of the name sequence a caller passes to the explicit entry point
MaxNames == 3
\* number of pieces a generated file text is made of (specification SpecScan)
MaxPieces == 4
\* indentation before the name in a split invocation (specification SpecScan)
MaxIndent == 2
\* capacity of the BufWriter, counted in lines (std: 8 KiB)
BufCap == 15
\* number of times the build runs the generator over the same tree
MaxRuns == 2

(***************************************************************************)
(* Sequences.                                                              *)
(***************************************************************************)
Range(s) == {s[i] : i \in 1..Len(s)}

RECURSIVE Concat(_)
Concat(ss) == IF ss = <<>> THEN <<>> ELSE Head(ss) \o Concat(Tail(ss))

Perms(S) == {p \in [1..Cardinality(S) -> S] : \A x \in S : \E i \in DOMAIN p : p[i] = x}

RECURSIVE SeqsUpTo(_, _)
SeqsUpTo(S, n) ==
    IF n = 0 THEN {<<>>}
    ELSE LET shorter == SeqsUpTo(S, n - 1)
         IN  shorter \cup {Append(s, x) : s \in shorter, x \in S}

(***************************************************************************)
(* The six patterns.  Each is a literal keyword followed by the same tail  *)
(*     [\n]?[\s]*([\d\w]+)[)\n,]                                           *)
(* The definitions below hold the literal; MatchAt matches literal + tail. *)
(***************************************************************************)
\* "metric!("
MetricBang == <<109, 101, 116, 114, 105, 99, 33, 40>>
\* get_counter!\(
GET_COUNTER_REGEX == <<103, 101, 116, 95, 99, 111, 117, 110, 116, 101, 114, 33, 40>>
\* increment_metric!\(
INCREMENT_METRIC_REGEX == <<105, 110, 99, 114, 101, 109, 101, 110, 116, 95>> \o MetricBang
\* tick_metric!\(
TICK_METRIC_REGEX == <<116, 105, 99, 107, 95>> \o MetricBang
\* set_metric!\(
SET_METRIC_REGEX == <<115, 101, 116, 95>> \o MetricBang
\* reset_metric!\(
RESET_METRIC_REGEX == <<114, 101, 115, 101, 116, 95>> \o MetricBang
\* load_metric!\(
LOAD_METRIC_REGEX == <<108, 111, 97, 100, 95>> \o MetricBang

\* (variant: the array without the pattern of load_metric!)
regexes_without_load ==
    << GET_COUNTER_REGEX, INCREMENT_METRIC_REGEX, TICK_METRIC_REGEX,
       SET_METRIC_REGEX, RESET_METRIC_REGEX >>

\* the array `regexes` of get_metric_names
regexes ==
    << GET_COUNTER_REGEX, INCREMENT_METRIC_REGEX, TICK_METRIC_REGEX,
       SET_METRIC_REGEX, RESET_METRIC_REGEX, LOAD_METRIC_REGEX >>

\* [\n]
NewlineClass == {10}
\* [\s] : tab, line feed, vertical tab, form feed, carriage return, space
SpaceClass == {9, 10, 11, 12, 13, 32}
\* [\d\w] : digits, upper case letters, underscore, lower case letters
WordClass == (48..57) \cup (65..90) \cup {95} \cup (97..122)
\* [)\n,]
TerminatorClass == {41, 10, 44}

\* the first index >= j of s that holds no character of class (Len(s)+1 if none)
RECURSIVE SkipClass(_, _, _)
SkipClass(s, j, class) ==
    IF j <= Len(s) /\ s[j] \in class THEN SkipClass(s, j + 1, class) ELSE j

HasLiteralAt(lit, s, i) ==
    /\ i + Len(lit) - 1 <= Len(s)
    /\ \A k \in 1..Len(lit) : s[i + k - 1] = lit[k]

\* (variant: a pattern whose white space between "(" and the name does not
\* include the newline, keyword[ \t]*([\d\w]+)[)\n,])
MatchAt_no_newline(re, s, i) ==
    LET a == i + Len(re)
        c == SkipClass(s, a, SpaceClass \ NewlineClass)
        d == SkipClass(s, c, WordClass)
    IN  IF HasLiteralAt(re, s, i) /\ d > c /\ d <= Len(s) /\ s[d] \in TerminatorClass
        THEN [matched |-> TRUE, name |-> SubSeq(s, c, d - 1), end |-> d + 1]
        ELSE [matched |-> FALSE, name |-> <<>>, end |-> i]

(***************************************************************************)
(* The match of pattern re that starts at index i of s, if there is one.   *)
(* Every repetition is greedy; none can give a character back, since the   *)
(* class that follows it is disjoint from what it would give back (a space *)
(* is no word character, a word character is no terminator).               *)
(***************************************************************************)
MatchAt(re, s, i) ==
    LET a == i + Len(re)
        b == IF a <= Len(s) /\ s[a] \in NewlineClass THEN a + 1 ELSE a
        c == SkipClass(s, b, SpaceClass)
        d == SkipClass(s, c, WordClass)
    IN  IF HasLiteralAt(re, s, i) /\ d > c /\ d <= Len(s) /\ s[d] \in TerminatorClass
        THEN [matched |-> TRUE, name |-> SubSeq(s, c, d - 1), end |-> d + 1]
        ELSE [matched |-> FALSE, name |-> <<>>, end |-> i]

\* re.captures_iter(&contents): the successive non-overlapping matches, leftmost
\* first, searching on from the end of the previous match; group 1 of each
RECURSIVE captures_iter(_, _, _)
captures_iter(re, s, p) ==
    IF p > Len(s) THEN <<>>
    ELSE LET m == MatchAt(re, s, p)
         IN  IF m.matched THEN <<m.name>> \o captures_iter(re, s, m.end)
             ELSE captures_iter(re, s, p + 1)

\* the loops over regexes and captures: what one file's contents insert
\* into the HashSet
RECURSIVE InsertCaptures(_, _, _)
InsertCaptures(set, contents, k) ==
    IF k > Len(regexes) THEN set
    ELSE InsertCaptures(set \cup Range(captures_iter(regexes[k], contents, 1)),
                        contents, k + 1)

(***************************************************************************)
(* Ord for String (byte-wise lexicographic) and Vec::sort.                 *)
(***************************************************************************)
RECURSIVE StrLess(_, _)
StrLess(a, b) ==
    IF b = <<>> THEN FALSE
    ELSE IF a = <<>> THEN TRUE
    ELSE IF a[1] # b[1] THEN a[1] < b[1]
    ELSE StrLess(Tail(a), Tail(b))

RECURSIVE InsertSorted(_, _)
InsertSorted(v, x) ==
    IF v = <<>> THEN <<x>>
    ELSE IF StrLess(x, Head(v)) THEN <<x>> \o v
    ELSE <<Head(v)>> \o InsertSorted(Tail(v), x)

RECURSIVE SortFrom(_, _)
SortFrom(done, rest) ==
    IF rest = <<>> THEN done ELSE SortFrom(InsertSorted(done, Head(rest)), Tail(rest))

\* (variant: the Vec left in the order the HashSet yielded)
sort_unsorted(v) == v

\* metric_names.sort()
sort(v) == SortFrom(<<>>, v)

(***************************************************************************)
(* The generated text.  A line is <<prefix, name, suffix>>: what writeln!   *)
(* formats around {metric}; a line without a name has the empty name.      *)
(***************************************************************************)
Line(text) == <<text, <<>>, "">>
Blank == Line("")

RECURSIVE FieldLines(_)
FieldLines(names) ==
    IF names = <<>> THEN <<>>
    ELSE <<(<<"pub ", Head(names), ": AtomicU64,">>)>> \o FieldLines(Tail(names))

RECURSIVE InitLines(_)
InitLines(names) ==
    IF names = <<>> THEN <<>>
    ELSE <<(<<"", Head(names), ": AtomicU64::new(0),">>)>> \o InitLines(Tail(names))

\* (variant: the singleton written before the struct)
Writes_static_first(names) ==
    << Line("use std::sync::atomic::AtomicU64;"),
       Blank,
       Line("pub static METRICS_RECORDER: MetricsRecorder = MetricsRecorder::new();"),
       Blank,
       Line("pub struct MetricsRecorder {") >>
    \o FieldLines(names)
    \o << Line("}"),
          Blank,
          Line("impl MetricsRecorder {"),
          Line("pub const fn new() -> Self {"),
          Line("Self {") >>
    \o InitLines(names)
    \o << Line("}"),
          Line("}"),
          Line("}") >>

\* the writeln! calls of generate_metrics_recorder_with_names, in order
Writes(names) ==
    << Line("use std::sync::atomic::AtomicU64;"),
       Blank,
       Line("pub struct MetricsRecorder {") >>
    \o FieldLines(names)
    \o << Line("}"),
          Blank,
          Line("impl MetricsRecorder {"),
          Line("pub const fn new() -> Self {"),
          Line("Self {") >>
    \o InitLines(names)
    \o << Line("}"),
          Line("}"),
          Line("}"),
          Blank,
          Line("pub static METRICS_RECORDER: MetricsRecorder = MetricsRecorder::new();") >>

(***************************************************************************)
(* State.                                                                  *)
(***************************************************************************)
VARIABLES
    mode,          \* the entry point the build script calls: "scan" or "names"
    fs,            \* what the glob yields: entries [status, contents]
    run,           \* the number of the current run of the generator
    pc,            \* position of the run
    printed,       \* the lines println! wrote
    src_files,     \* get_metric_names: the rest of the glob iterator (indices of fs)
    hash_set,      \* get_metric_names: the HashSet metric_names
    metric_names,  \* the names passed to generate_metrics_recorder_with_names
    emitted,       \* number of writeln! calls done
    out,           \* the lines the BufWriter holds
    file,          \* $OUT_DIR/metrics.rs: [exists, lines]
    output,        \* the Output of the rustfmt process
    result,        \* what the entry point returned: [kind, msg]
    fault,         \* the first failure of the environment in this run
    prev_file      \* metrics.rs as the previous run left it

vars == << mode, fs, run, pc, printed, src_files, hash_set, metric_names,
           emitted, out, file, output, result, fault, prev_file >>

NoFile == [exists |-> FALSE, lines |-> <<>>]
NoOutput == [ran |-> FALSE, success |-> FALSE, stdout |-> "", stderr |-> ""]
NoResult == [kind |-> "none", msg |-> <<>>]
Ok == [kind |-> "Ok", msg |-> <<>>]
Err(msg) == [kind |-> "Err", msg |-> msg]

\* what a finished rustfmt process can hand back
FormatterOutputs ==
    { [ran |-> TRUE, success |-> TRUE, stdout |-> "", stderr |-> ""],
      [ran |-> TRUE, success |-> FALSE, stdout |-> "", stderr |-> "error: expected item"],
      [ran |-> TRUE, success |-> FALSE, stdout |-> "Diff in metrics.rs", stderr |-> ""] }

(***************************************************************************)
(* Inputs.                                                                 *)
(***************************************************************************)
Spaces(n) == [i \in 1..n |-> 32]

\* keyword( newline indentation name terminator
SplitForm(re, indent, name, term) == re \o <<10>> \o Spaces(indent) \o name \o <<term>>
\* keyword(name) or keyword(name,
SingleForm(re, name, term) == re \o name \o <<(IF term = 10 THEN 41 ELSE term)>>

\* a, n3_, Zed
FormNames == { <<97>>, <<110, 51, 95>>, <<90, 101, 100>> }

Forms ==
    { SplitForm(regexes[k], i, n, t) :
        k \in 1..Len(regexes), i \in 0..MaxIndent, n \in FormNames, t \in TerminatorClass }
    \cup
    { SingleForm(regexes[k], n, t) :
        k \in 1..Len(regexes), n \in FormNames, t \in TerminatorClass }

\* tick_metric!(  reset_metric!(  newline  space  a  1  )  ,  ;
Pieces ==
    { TICK_METRIC_REGEX, RESET_METRIC_REGEX, <<10>>, <<32>>, <<97>>, <<49>>,
      <<41>>, <<44>>, <<59>> }

PieceTexts == { Concat(ps) : ps \in SeqsUpTo(Pieces, MaxPieces) }

\* tick_metric!(foo);\ntick_metric!(foo);\nincrement_metric!(bar, 3);\n
TextTickInc ==
    TICK_METRIC_REGEX \o <<102, 111, 111, 41, 59, 10>>
    \o TICK_METRIC_REGEX \o <<102, 111, 111, 41, 59, 10>>
    \o INCREMENT_METRIC_REGEX \o <<98, 97, 114, 44, 32, 51, 41, 59, 10>>
\* get_counter!(\n    zed\n);\nreset_metric!(bar);\n
TextSplit ==
    GET_COUNTER_REGEX \o <<10, 32, 32, 32, 32, 122, 101, 100, 10, 41, 59, 10>>
    \o RESET_METRIC_REGEX \o <<98, 97, 114, 41, 59, 10>>
\* // load_metric!(3x)\nset_metric!(Bar, 7);\n
TextDigit ==
    <<47, 47, 32>> \o LOAD_METRIC_REGEX \o <<51, 120, 41, 10>>
    \o SET_METRIC_REGEX \o <<66, 97, 114, 44, 32, 55, 41, 59, 10>>
\* fn main() {}\n
TextPlain == <<102, 110, 32, 109, 97, 105, 110, 40, 41, 32, 123, 125, 10>>

Contents == { TextTickInc, TextSplit, TextDigit, TextPlain }

\* an entry of the glob iterator: a path that resolved and reads as text, a path
\* that resolved and does not read as text, or an error of the enumeration
Entries ==
    { [status |-> st, contents |-> c] : st \in {"ok", "read_err"}, c \in Contents }
    \cup { [status |-> "glob_err", contents |-> <<>>] }

\* a, z, B
CallerNames == { <<97>>, <<122>>, <<66>> }

InitRun ==
    /\ run = 1
    /\ printed = <<>>
    /\ src_files = <<>>
    /\ hash_set = {}
    /\ emitted = 0
    /\ out = <<>>
    /\ file = NoFile
    /\ output = NoOutput
    /\ result = NoResult
    /\ fault = "none"
    /\ prev_file = NoFile

\* the build script calls generate_metrics_recorder()
InitScan ==
    /\ mode = "scan"
    /\ fs \in SeqsUpTo(Entries, NumFiles)
    /\ metric_names = <<>>
    /\ pc = "start"
    /\ InitRun

\* the build script calls generate_metrics_recorder_with_names(names)
InitNames ==
    /\ mode = "names"
    /\ fs = <<>>
    /\ metric_names \in SeqsUpTo(CallerNames, MaxNames)
    /\ pc = "create"
    /\ InitRun

Init == InitScan \/ InitNames

\* one readable file, of any text
InitText ==
    /\ mode = "scan"
    /\ \E c \in PieceTexts \cup Forms : fs = << [status |-> "ok", contents |-> c] >>
    /\ metric_names = <<>>
    /\ pc = "start"
    /\ InitRun

(***************************************************************************)
(* generate_metrics_recorder and get_metric_names.                         *)
(***************************************************************************)
\* println!, glob(pattern)?, HashSet::new(): the pattern is the fixed, well-formed
\* "src/**/*.rs"; the glob yields its entries in some order
Start ==
    /\ pc = "start"
    /\ mode = "scan"
    /\ printed' = Append(printed, "cargo:rerun-if-changed=src/")
    /\ \E order \in Perms(1..Len(fs)) : src_files' = order
    /\ hash_set' = {}
    /\ pc' = "scan"
    /\ UNCHANGED << mode, fs, run, metric_names, emitted, out, file, output,
                    result, fault, prev_file >>

\* one turn of the loop over src_files: filter_map(|x| x.ok()) drops an entry
\* that is an error, `if let Ok(contents)` skips a file that does not read
ScanEntry(set, entry) ==
    IF entry.status = "ok" THEN InsertCaptures(set, entry.contents, 1) ELSE set

\* (variant: an entry that fails ends the run, as `?` would)
ScanFile_propagate ==
    /\ pc = "scan"
    /\ src_files # <<>>
    /\ IF fs[Head(src_files)].status = "ok"
       THEN /\ hash_set' = ScanEntry(hash_set, fs[Head(src_files)])
            /\ src_files' = Tail(src_files)
            /\ UNCHANGED << pc, result >>
       ELSE /\ result' = Err(<<"cannot read the file">>)
            /\ pc' = "done"
            /\ UNCHANGED << hash_set, src_files >>
    /\ UNCHANGED << mode, fs, run, printed, metric_names, emitted, out, file,
                    output, fault, prev_file >>

ScanFile ==
    /\ pc = "scan"
    /\ src_files # <<>>
    /\ hash_set' = ScanEntry(hash_set, fs[Head(src_files)])
    /\ src_files' = Tail(src_files)
    /\ UNCHANGED << mode, fs, run, pc, printed, metric_names, emitted, out, file,
                    output, result, fault, prev_file >>

\* (variant: an empty set of names is reported as an error)
Collect_empty_is_error ==
    /\ pc = "scan"
    /\ src_files = <<>>
    /\ IF hash_set = {}
       THEN /\ result' = Err(<<"no counters found">>)
            /\ pc' = "done"
            /\ UNCHANGED metric_names
       ELSE /\ \E v \in Perms(hash_set) : metric_names' = sort(v)
            /\ pc' = "create"
            /\ UNCHANGED result
    /\ UNCHANGED << mode, fs, run, printed, src_files, hash_set, emitted, out, file,
                    output, fault, prev_file >>

\* into_iter().collect() in the order the HashSet yields, sort(), Ok(metric_names);
\* the caller passes the names on
Collect ==
    /\ pc = "scan"
    /\ src_files = <<>>
    /\ \E v \in Perms(hash_set) : metric_names' = sort(v)
    /\ pc' = "create"
    /\ UNCHANGED << mode, fs, run, printed, src_files, hash_set, emitted, out, file,
                    output, result, fault, prev_file >>

NextScan == Start \/ ScanFile \/ Collect

SpecScan == InitText /\ [][NextScan]_vars

(***************************************************************************)
(* generate_metrics_recorder_with_names.                                   *)
(***************************************************************************)
FirstFault(f) == IF fault = "none" THEN f ELSE fault

\* env::var("OUT_DIR")?, File::create(&output)?, BufWriter::new: the variable
\* may be unset and the creation may fail; a created file is truncated
Create ==
    /\ pc = "create"
    /\ \/ /\ result' = Err(<<"environment variable not found">>)
          /\ fault' = FirstFault("out_dir")
          /\ pc' = "done"
          /\ UNCHANGED << file, out, emitted >>
       \/ /\ result' = Err(<<"cannot create metrics.rs">>)
          /\ fault' = FirstFault("create")
          /\ pc' = "done"
          /\ UNCHANGED << file, out, emitted >>
       \/ /\ file' = [exists |-> TRUE, lines |-> <<>>]
          /\ out' = <<>>
          /\ emitted' = 0
          /\ pc' = "write"
          /\ UNCHANGED << result, fault >>
    /\ UNCHANGED << mode, fs, run, printed, src_files, hash_set, metric_names,
                    output, prev_file >>

\* the next writeln!(out, ...)?: BufWriter keeps the line while it has room and
\* writes what it holds to the file first when it has none.  That write may
\* fail: `?` returns the error, and dropping `out` on the way out tries the
\* write again, ignoring how it ends.
WriteLine ==
    /\ pc = "write"
    /\ emitted < Len(Writes(metric_names))
    /\ LET line == Writes(metric_names)[emitted + 1]
       IN  IF Len(out) + 1 <= BufCap
           THEN /\ out' = Append(out, line)
                /\ emitted' = emitted + 1
                /\ UNCHANGED << file, result, fault, pc >>
           ELSE \/ /\ file' = [file EXCEPT !.lines = @ \o out]
                   /\ out' = <<line>>
                   /\ emitted' = emitted + 1
                   /\ UNCHANGED << result, fault, pc >>
                \/ /\ result' = Err(<<"write to metrics.rs failed">>)
                   /\ fault' = FirstFault("write")
                   /\ pc' = "done"
                   /\ out' = <<>>
                   /\ \/ file' = file
                      \/ file' = [file EXCEPT !.lines = @ \o out]
                   /\ UNCHANGED emitted
    /\ UNCHANGED << mode, fs, run, printed, src_files, hash_set, metric_names,
                    output, prev_file >>

\* drop(out): BufWriter's Drop writes what it holds to the file and ignores
\* the error if that write fails; the file is closed
DropOut ==
    /\ pc = "write"
    /\ emitted = Len(Writes(metric_names))
    /\ out' = <<>>
    /\ \/ /\ file' = [file EXCEPT !.lines = @ \o out]
          /\ UNCHANGED fault
       \/ /\ file' = file
          /\ fault' = FirstFault("lost_write")
    /\ pc' = "format"
    /\ UNCHANGED << mode, fs, run, printed, src_files, hash_set, metric_names,
                    emitted, output, result, prev_file >>

\* Command::new("rustfmt").arg(&output).output()?, the check of the status, Ok(()):
\* the process may fail to start; what rustfmt does to the layout of the file
\* is not modelled, `file` keeps the lines as the generator wrote them
Format ==
    /\ pc = "format"
    /\ \/ /\ output' = NoOutput
          /\ result' = Err(<<"cannot run rustfmt">>)
          /\ fault' = FirstFault("spawn")
       \/ \E o \in FormatterOutputs :
            /\ output' = o
            /\ IF o.success
               THEN result' = Ok /\ UNCHANGED fault
               ELSE /\ result' = Err(<<"failed to format generated code:",
                                       o.stdout, o.stderr>>)
                    /\ fault' = FirstFault("rustfmt")
    /\ pc' = "done"
    /\ UNCHANGED << mode, fs, run, printed, src_files, hash_set, metric_names,
                    emitted, out, file, prev_file >>

\* the build runs the script again over the same tree (or with the same names)
Rerun ==
    /\ pc = "done"
    /\ run < MaxRuns
    /\ result = Ok
    /\ fault = "none"
    /\ run' = run + 1
    /\ prev_file' = file
    /\ pc' = IF mode = "scan" THEN "start" ELSE "create"
    /\ src_files' = <<>>
    /\ hash_set' = {}
    /\ metric_names' = IF mode = "scan" THEN <<>> ELSE metric_names
    /\ output' = NoOutput
    /\ result' = NoResult
    /\ UNCHANGED << mode, fs, printed, emitted, out, file, fault >>

Next == Start \/ ScanFile \/ Collect \/ Create \/ WriteLine \/ DropOut \/ Format \/ Rerun

Spec == Init /\ [][Next]_vars

(***************************************************************************)
(* What the claims speak of.                                               *)
(***************************************************************************)
\* a is before b in lexicographic order: a is a proper prefix of b, or the
\* first character in which they differ is the smaller one in a
LexBefore(a, b) ==
    \E k \in 1..(Len(b)) :
        /\ \A j \in 1..(k - 1) : j <= Len(a) /\ a[j] = b[j]
        /\ \/ k = Len(a) + 1
           \/ k <= Len(a) /\ a[k] < b[k]

StrictlyAscending(v) == \A i \in 1..(Len(v) - 1) : LexBefore(v[i], v[i + 1])

\* the sequence that holds each name of S once, in ascending order
AscendingSeq(S) == CHOOSE v \in Perms(S) : StrictlyAscending(v)

IsFieldLine(l) == l[1] = "pub " /\ l[3] = ": AtomicU64,"

\* the names of the fields of the struct in the text, in the order of the text
RECURSIVE FieldNames(_)
FieldNames(lines) ==
    IF lines = <<>> THEN <<>>
    ELSE (IF IsFieldLine(Head(lines)) THEN <<Head(lines)[2]>> ELSE <<>>)
         \o FieldNames(Tail(lines))

\* the run is over, it returned Ok, and nothing in its environment failed
RunSucceeded == pc = "done" /\ result = Ok /\ fault = "none"

\* zed, foo, bar
NameZed == <<122, 101, 100>>
NameFoo == <<102, 111, 111>>
NameBar == <<98, 97, 114>>

(***************************************************************************)
(* C1: for every name sequence passed to                                   *)
(* generate_metrics_recorder_with_names (any order, duplicates allowed),   *)
(* the generated MetricsRecorder has exactly one field per distinct name,  *)
(* in ascending lexicographic order: after a successful call the fields of *)
(* metrics.rs are the sorted, deduplicated names.                          *)
(***************************************************************************)
C1_FieldsSortedDistinct ==
    (mode = "names" /\ RunSucceeded)
        => FieldNames(file.lines) = AscendingSeq(Range(metric_names))

(***************************************************************************)
(* C2: the sequence get_metric_names returns is strictly ascending (sorted, *)
(* no duplicates), whatever the files hold: a name captured by several     *)
(* patterns, several times in a file or in several files appears once.     *)
(***************************************************************************)
C2_NamesStrictlyAscending ==
    (mode = "scan" /\ pc \notin {"start", "scan"}) => StrictlyAscending(metric_names)

\* get_metric_names has returned three names from two files that both hold
\* bar (under increment_metric! and under reset_metric!), one of them foo twice
C2_Witness ==
    /\ mode = "scan"
    /\ pc = "create"
    /\ fs = << [status |-> "ok", contents |-> TextTickInc],
               [status |-> "ok", contents |-> TextSplit] >>
    /\ metric_names = << NameBar, NameFoo, NameZed >>

(***************************************************************************)
(* C3: two runs of generate_metrics_recorder over the same files with the  *)
(* same contents produce the same artifact, whatever order the glob yields *)
(* the files in and whatever order the HashSet yields the names in: when a *)
(* later run has succeeded, metrics.rs is what the run before left.        *)
(***************************************************************************)
C3_RerunSameArtifact ==
    (mode = "scan" /\ run > 1 /\ RunSucceeded) => file = prev_file

\* a second run over two files with three names between them has succeeded
C3_Witness ==
    /\ mode = "scan"
    /\ run = 2
    /\ RunSucceeded
    /\ Len(fs) = 2
    /\ Len(FieldNames(file.lines)) = 3

\* the opening of the six invocation forms: the name of each macro, "!("
InvocationForms ==
    { GET_COUNTER_REGEX, INCREMENT_METRIC_REGEX, TICK_METRIC_REGEX,
      SET_METRIC_REGEX, RESET_METRIC_REGEX, LOAD_METRIC_REGEX }

\* the names that contents references in one of the six invocation forms: a
\* keyword, then white space, then the name (all the word characters up to a
\* terminating delimiter)
Referenced(contents) ==
    UNION
      { { SubSeq(contents, c, d - 1) :
            c \in { b \in 1..(d - 1) :
                      /\ \A j \in b..(d - 1) : contents[j] \in WordClass
                      /\ \E kw \in InvocationForms : \E i \in 1..b :
                            /\ i + Len(kw) <= b
                            /\ HasLiteralAt(kw, contents, i)
                            /\ \A j \in (i + Len(kw))..(b - 1) :
                                  contents[j] \in SpaceClass } } :
          d \in { e \in 1..Len(contents) : contents[e] \in TerminatorClass } }

ReferencedIn(statuses) ==
    UNION { Referenced(fs[i].contents) : i \in {j \in 1..Len(fs) : fs[j].status \in statuses} }

(***************************************************************************)
(* C4: after a successful generate_metrics_recorder run the set of field   *)
(* names of the generated MetricsRecorder equals the set of names          *)
(* referenced by a recognized invocation form in the files matched by the  *)
(* glob (the entries that resolved to a path).                             *)
(***************************************************************************)
C4_FieldsAreMatchedFilesNames ==
    (mode = "scan" /\ RunSucceeded)
        => Range(FieldNames(file.lines)) = ReferencedIn({"ok", "read_err"})

(***************************************************************************)
(* C4, amended: after a successful generate_metrics_recorder run the set   *)
(* of field names equals the set of names referenced by a recognized       *)
(* invocation form in the matched files that could be read as text.        *)
(***************************************************************************)
C4_FieldsAreReadableFilesNames ==
    (mode = "scan" /\ RunSucceeded)
        => Range(FieldNames(file.lines)) = ReferencedIn({"ok"})

\* a run has succeeded over a file that reads (foo, bar) and a file that does
\* not read and holds invocations (zed, bar)
C4_Witness ==
    /\ mode = "scan"
    /\ RunSucceeded
    /\ \E i, j \in 1..Len(fs) :
          /\ fs[i] = [status |-> "ok", contents |-> TextTickInc]
          /\ fs[j] = [status |-> "read_err", contents |-> TextSplit]
    /\ Range(FieldNames(file.lines)) = {NameFoo, NameBar}

\* fs with every entry that fails (to resolve, or to read) replaced by a
\* readable file without any invocation
Emptied(entry) ==
    IF entry.status = "ok" THEN entry ELSE [status |-> "ok", contents |-> <<>>]

(***************************************************************************)
(* C5: in get_metric_names a glob entry that fails to resolve or a file    *)
(* that fails to read never aborts the run: no error is returned unless    *)
(* the environment of the generator fails later, and get_metric_names      *)
(* returns the sorted names captured from the readable files, the names it *)
(* would return had each failing file held no invocation.                  *)
(***************************************************************************)
C5_FailingFilesAreSkipped ==
    /\ (mode = "scan" /\ pc \in {"start", "scan"}) => result = NoResult
    /\ (mode = "scan" /\ fault = "none") => result.kind # "Err"
    /\ (mode = "scan" /\ pc = "create")
          => metric_names =
                AscendingSeq(UNION { Referenced(Emptied(fs[i]).contents) : i \in 1..Len(fs) })

\* get_metric_names has returned bar and zed: one file did not read (and
\* holds foo), the other one did
C5_Witness ==
    /\ mode = "scan"
    /\ pc = "create"
    /\ \E i, j \in 1..Len(fs) :
          /\ fs[i] = [status |-> "read_err", contents |-> TextTickInc]
          /\ fs[j] = [status |-> "ok", contents |-> TextSplit]
    /\ metric_names = << NameBar, NameZed >>

\* the same with an entry of the glob that is an error
C5_WitnessGlob ==
    /\ mode = "scan"
    /\ pc = "create"
    /\ \E i, j \in 1..Len(fs) :
          /\ fs[i].status = "glob_err"
          /\ fs[j] = [status |-> "ok", contents |-> TextSplit]
    /\ metric_names = << NameBar, NameZed >>

(***************************************************************************)
(* C6: in generate_metrics_recorder_with_names the formatter is invoked    *)
(* only after the artifact has been completely written and the writer      *)
(* closed; whenever the formatter exits with a non-zero status the call    *)
(* returns an error carrying its captured stdout and stderr; and the call  *)
(* returns Ok only when the write succeeded and the formatter exited with  *)
(* success.                                                                *)
(***************************************************************************)
C6_FormatAfterWriteAndStrict ==
    /\ output.ran => (emitted = Len(Writes(metric_names)) /\ out = <<>>)
    /\ (output.ran /\ ~output.success)
          => /\ result.kind = "Err"
             /\ result.msg = <<"failed to format generated code:",
                               output.stdout, output.stderr>>
    /\ result = Ok
          => /\ file.exists
             /\ file.lines = Writes(metric_names)
             /\ output.ran
             /\ output.success

\* the artifact with no field: the import, the empty struct, the constructor
\* with the empty initializer, the singleton
ZeroFieldArtifact ==
    << Line("use std::sync::atomic::AtomicU64;"),
       Blank,
       Line("pub struct MetricsRecorder {"),
       Line("}"),
       Blank,
       Line("impl MetricsRecorder {"),
       Line("pub const fn new() -> Self {"),
       Line("Self {"),
       Line("}"),
       Line("}"),
       Line("}"),
       Blank,
       Line("pub static METRICS_RECORDER: MetricsRecorder = MetricsRecorder::new();") >>

(***************************************************************************)
(* C7: when no name is discovered (the glob matches no file, or no file    *)
(* holds a recognized invocation) the pipeline finishes without error, as  *)
(* long as nothing in its environment fails, and writes the artifact with  *)
(* a MetricsRecorder of zero fields, new() with an empty initializer and   *)
(* the METRICS_RECORDER singleton: finding no counter is never an error.   *)
(***************************************************************************)
C7_NoNameIsNoError ==
    (mode = "scan" /\ pc = "done" /\ ReferencedIn({"ok"}) = {} /\ fault = "none")
        => /\ result = Ok
           /\ file.exists
           /\ file.lines = ZeroFieldArtifact

\* a run over files without any invocation (or that do not read) has ended
C7_Witness ==
    /\ mode = "scan"
    /\ pc = "done"
    /\ result = Ok
    /\ Len(fs) = 2
    /\ fs[1] = [status |-> "ok", contents |-> TextPlain]
    /\ metric_names = <<>>
    /\ file.lines = ZeroFieldArtifact

\* a run over no file at all has ended
C7_WitnessNoFile ==
    /\ mode = "scan"
    /\ pc = "done"
    /\ result = Ok
    /\ fs = <<>>
    /\ file.lines = ZeroFieldArtifact

\* the text cut at its blank lines: the runs of lines between them
RECURSIVE Blocks(_, _)
Blocks(lines, block) ==
    IF lines = <<>> THEN <<block>>
    ELSE IF Head(lines) = Blank THEN <<block>> \o Blocks(Tail(lines), <<>>)
    ELSE Blocks(Tail(lines), Append(block, Head(lines)))

UseDecl == << Line("use std::sync::atomic::AtomicU64;") >>

\* the struct with one public AtomicU64 field per name, in the order of names
StructDecl(names) ==
    << Line("pub struct MetricsRecorder {") >>
    \o [i \in 1..Len(names) |-> <<"pub ", names[i], ": AtomicU64,">>]
    \o << Line("}") >>

\* the const constructor that sets every field to zero, in the order of names
NewDecl(names) ==
    << Line("impl MetricsRecorder {"),
       Line("pub const fn new() -> Self {"),
       Line("Self {") >>
    \o [i \in 1..Len(names) |-> <<"", names[i], ": AtomicU64::new(0),">>]
    \o << Line("}"), Line("}"), Line("}") >>

\* the public static singleton built by the constructor
StaticDecl ==
    << Line("pub static METRICS_RECORDER: MetricsRecorder = MetricsRecorder::new();") >>

(***************************************************************************)
(* C8: for every name sequence the artifact written by                     *)
(* generate_metrics_recorder_with_names consists of exactly three          *)
(* declarations, separated by blank lines and with no other declaration:   *)
(* the struct, the const constructor, the static singleton.                *)
(***************************************************************************)
C8_ExactlyThreeDeclarations ==
    RunSucceeded
        => Blocks(file.lines, <<>>) =
              << StructDecl(metric_names), NewDecl(metric_names), StaticDecl >>

(***************************************************************************)
(* C8, amended: for every name sequence the artifact written by            *)
(* generate_metrics_recorder_with_names consists of the import of          *)
(* AtomicU64 and then exactly three declarations, all separated by blank   *)
(* lines: the struct with one public AtomicU64 field per name in sequence  *)
(* order, the const constructor that sets every one of those fields to     *)
(* zero in the same order, and the static singleton built by it.           *)
(***************************************************************************)
C8_ImportThenThreeDeclarations ==
    RunSucceeded
        => Blocks(file.lines, <<>>) =
              << UseDecl, StructDecl(metric_names), NewDecl(metric_names), StaticDecl >>

\* a call with the names z, a, a (unsorted, one twice) has succeeded
C8_Witness ==
    /\ mode = "names"
    /\ RunSucceeded
    /\ metric_names = << <<122>>, <<97>>, <<97>> >>
    /\ Len(file.lines) = 19

Digits == 48..57
Letters == (65..90) \cup (97..122)

\* a CounterName: not empty, made of letters, digits and underscore only, and
\* not starting with a digit
IsCounterName(n) ==
    /\ n # <<>>
    /\ \A i \in 1..Len(n) : n[i] \in Letters \cup Digits \cup {95}
    /\ n[1] \notin Digits

(***************************************************************************)
(* C9: for each of the six operation forms an invocation whose name is on  *)
(* the line after the opening parenthesis (keyword and "(", a newline,     *)
(* optional indentation, the name, then a newline, "," or ")") is          *)
(* recognized by the scanner and captures exactly the name that the        *)
(* single-line form of the invocation captures.                            *)
(***************************************************************************)
C9_SplitFormIsRecognized ==
    pc = "create" =>
        \A k \in 1..Len(regexes), n \in FormNames, t \in TerminatorClass :
            /\ fs[1].contents = SingleForm(regexes[k], n, t) => metric_names = <<n>>
            /\ \A i \in 0..MaxIndent :
                  fs[1].contents = SplitForm(regexes[k], i, n, t)
                      => /\ metric_names = <<n>>
                         /\ captures_iter(regexes[k], fs[1].contents, 1) = <<n>>

\* the scan of get_counter!( newline, two spaces, n3_, newline has returned n3_
C9_Witness ==
    /\ pc = "create"
    /\ fs[1].contents = GET_COUNTER_REGEX \o <<10, 32, 32, 110, 51, 95, 10>>
    /\ metric_names = << <<110, 51, 95>> >>

(***************************************************************************)
(* C10: every name that get_metric_names captures and returns, for any     *)
(* file contents, is a CounterName: non-empty, made only of letters,       *)
(* digits and underscore, and not starting with a digit.                   *)
(***************************************************************************)
C10_NamesAreCounterNames ==
    (mode = "scan" /\ pc = "create") => \A i \in 1..Len(metric_names) : IsCounterName(metric_names[i])

=============================================================================
